---- MODULE Spec2Model ----
(***************************************************************************)
(* Earthquake ingestion and query service.                                 *)
(*                                                                         *)
(* Strings that the program parses or rewrites character by character      *)
(* (DateTime, Coordinates, Magnitude, Kedalaman, ids, query parameters)    *)
(* are tuples of one-character strings.  Opaque strings are TLA+ strings.  *)
(* A JavaScript number is a record [nan, v]: v counts tenths, so 5.2 is    *)
(* [nan |-> FALSE, v |-> 52]; NaN is [nan |-> TRUE, v |-> 0].              *)
(* An optional value is <<>> (undefined / null) or <<x>>.                  *)
(***************************************************************************)
EXTENDS Integers, Sequences, FiniteSets, TLC

\* ------------------------------------------------------------------------
\* JavaScript primitives used by the services
\* ------------------------------------------------------------------------

NaN == [nan |-> TRUE, v |-> 0]

Num(v) == [nan |-> FALSE, v |-> v]

Null == <<>>

Some(x) == <<x>>

IsDigit(c) == c \in {"0", "1", "2", "3", "4", "5", "6", "7", "8", "9"}

DigitVal(c) ==
  CASE c = "0" -> 0 [] c = "1" -> 1 [] c = "2" -> 2 [] c = "3" -> 3
    [] c = "4" -> 4 [] c = "5" -> 5 [] c = "6" -> 6 [] c = "7" -> 7
    [] c = "8" -> 8 [] c = "9" -> 9

DigitChar(d) ==
  CASE d = 0 -> "0" [] d = 1 -> "1" [] d = 2 -> "2" [] d = 3 -> "3"
    [] d = 4 -> "4" [] d = 5 -> "5" [] d = 6 -> "6" [] d = 7 -> "7"
    [] d = 8 -> "8" [] d = 9 -> "9"

\* the characters the regular expression class \s matches
IsSpace(c) == c \in {" ", "\t", "\n", "\r"}

\* s without its first n characters
Drop(s, n) == SubSeq(s, n + 1, Len(s))

\* length of the longest prefix of s made of digits
RECURSIVE DigitRun(_)
DigitRun(s) ==
  IF s # <<>> /\ IsDigit(Head(s)) THEN 1 + DigitRun(Tail(s)) ELSE 0

\* length of the longest prefix of s made of white space
RECURSIVE SpaceRun(_)
SpaceRun(s) ==
  IF s # <<>> /\ IsSpace(Head(s)) THEN 1 + SpaceRun(Tail(s)) ELSE 0

\* value of a string of digits, 0 for the empty string
RECURSIVE DigitsValue(_)
DigitsValue(s) ==
  IF s = <<>> THEN 0
  ELSE 10 * DigitsValue(SubSeq(s, 1, Len(s) - 1)) + DigitVal(s[Len(s)])

\* decimal digits of a natural number
RECURSIVE NatToStr(_)
NatToStr(n) ==
  IF n < 10 THEN <<DigitChar(n)>>
  ELSE NatToStr(n \div 10) \o <<DigitChar(n % 10)>>

\* parseFloat(string): skips leading white space, reads the longest prefix
\* that is a decimal literal ([+-] digits [. digits]) and ignores the rest;
\* NaN when no digit was read.  The value keeps the first fractional digit.
parseFloatStr(s) ==
  LET t    == Drop(s, SpaceRun(s))
      sgn  == IF t # <<>> /\ Head(t) = "-" THEN -1 ELSE 1
      u    == IF t # <<>> /\ Head(t) \in {"-", "+"} THEN Tail(t) ELSE t
      ni   == DigitRun(u)
      w    == Drop(u, ni)
      frac == IF w # <<>> /\ Head(w) = "." THEN Tail(w) ELSE <<>>
      nf   == DigitRun(frac)
  IN  IF ni = 0 /\ nf = 0 THEN NaN
      ELSE Num(sgn * (10 * DigitsValue(SubSeq(u, 1, ni))
                      + (IF nf = 0 THEN 0 ELSE DigitVal(frac[1]))))

\* parseFloat(x) for a value that may be undefined: String(undefined) is
\* "undefined", which holds no number
parseFloat(x) == IF x = <<>> THEN NaN ELSE parseFloatStr(x[1])

\* parseInt(string): leading white space, optional sign, decimal digits
parseInt(s) ==
  LET t   == Drop(s, SpaceRun(s))
      sgn == IF t # <<>> /\ Head(t) = "-" THEN -1 ELSE 1
      u   == IF t # <<>> /\ Head(t) \in {"-", "+"} THEN Tail(t) ELSE t
      ni  == DigitRun(u)
  IN  IF ni = 0 THEN NaN ELSE Num(sgn * 10 * DigitsValue(SubSeq(u, 1, ni)))

\* String(number) as a template literal prints it: shortest form, no
\* trailing ".0", "NaN" for NaN
NumToStr(n) ==
  IF n.nan THEN <<"N", "a", "N">>
  ELSE LET a == IF n.v < 0 THEN -n.v ELSE n.v
       IN  (IF n.v < 0 THEN <<"-">> ELSE <<>>)
           \o NatToStr(a \div 10)
           \o (IF a % 10 = 0 THEN <<>> ELSE <<".", DigitChar(a % 10)>>)

\* String.prototype.split(sep) for a one-character separator
RECURSIVE Split(_, _)
Split(s, sep) ==
  IF \E i \in 1..Len(s) : s[i] = sep
  THEN LET i == CHOOSE j \in 1..Len(s) :
                  s[j] = sep /\ \A k \in 1..(j - 1) : s[k] # sep
       IN  <<SubSeq(s, 1, i - 1)>> \o Split(Drop(s, i), sep)
  ELSE <<s>>

\* array[i] with a zero-based index: undefined outside the array
At(arr, i) == IF i + 1 \in 1..Len(arr) THEN Some(arr[i + 1]) ELSE <<>>

\* String.prototype.replace(pat, rep) with a string pattern: the first
\* occurrence only
ReplaceFirst(s, pat, rep) ==
  LET occ == {i \in 1..(Len(s) - Len(pat) + 1) :
                SubSeq(s, i, i + Len(pat) - 1) = pat}
  IN  IF occ = {} THEN s
      ELSE LET i == CHOOSE j \in occ : \A k \in occ : j <= k
           IN  SubSeq(s, 1, i - 1) \o rep \o Drop(s, i + Len(pat) - 1)

\* String.prototype.replace(/[:\s]/g, "_"): every colon and every white
\* space character
ReplaceColonSpaceAll(s) ==
  [i \in 1..Len(s) |-> IF s[i] = ":" \/ IsSpace(s[i]) THEN "_" ELSE s[i]]

\* new Date(string).getTime() for the time-of-day form "h:m:s" with one
\* digit per field, counted in milliseconds from the start of the epoch
\* day; NaN (Invalid Date) for any other string
DateParse(s) ==
  IF /\ Len(s) = 5
     /\ IsDigit(s[1]) /\ s[2] = ":" /\ IsDigit(s[3]) /\ s[4] = ":"
     /\ IsDigit(s[5])
  THEN Num(10 * 1000
           * ((DigitVal(s[1]) * 60 + DigitVal(s[3])) * 60 + DigitVal(s[5])))
  ELSE NaN

\* x || null for a string that may be undefined or empty
OrNull(x) == IF x = <<>> \/ x = <<"">> THEN Null ELSE x

\* ------------------------------------------------------------------------
\* Feed entries (BMKGEarthquake) the feeds may publish
\* ------------------------------------------------------------------------

BMKG_BASE_URL == "https://data.bmkg.go.id"

Chars_1_0_0 == <<"1", ":", "0", ":", "0">>

Chars_2_0_0 == <<"2", ":", "0", ":", "0">>

Chars_3_0_0 == <<"3", ":", "0", ":", "0">>

\* a well-formed entry
EJava ==
  [Tanggal |-> "01 Jan", Jam |-> "01:00:00 WIB", DateTime |-> Chars_1_0_0,
   Coordinates |-> Some(<<"7", ".", "0", ",", "1">>),
   Magnitude |-> <<"5", ".", "0">>,
   Kedalaman |-> Some(<<"1", "0", " ", "k", "m">>),
   Wilayah |-> "Java", Potensi |-> Some("Tidak berpotensi tsunami"),
   Dirasakan |-> <<>>, Shakemap |-> Some("a.jpg")]

\* the same event as EJava (same DateTime, same coordinates written
\* differently), every other field different
EJavaFelt ==
  [Tanggal |-> "1 Januari", Jam |-> "01:00 WIB", DateTime |-> Chars_1_0_0,
   Coordinates |-> Some(<<"7", ",", "1", ".", "0">>),
   Magnitude |-> <<"6">>,
   Kedalaman |-> Some(<<"2", "0", " ", "k", "m">>),
   Wilayah |-> "Bali", Potensi |-> Some(""),
   Dirasakan |-> Some("III Denpasar"), Shakemap |-> <<>>]

\* an entry whose magnitude is not a number
EBadMag ==
  [Tanggal |-> "01 Jan", Jam |-> "02:00:00 WIB", DateTime |-> Chars_2_0_0,
   Coordinates |-> Some(<<"-", "3", ".", "5", ",", "2">>),
   Magnitude |-> <<"a", "b", "c">>,
   Kedalaman |-> Some(<<"5", " ", "k", "m">>),
   Wilayah |-> "Sulawesi", Potensi |-> <<>>,
   Dirasakan |-> <<>>, Shakemap |-> <<>>]

\* the event of EBadMag with a well-formed magnitude
ESulawesi ==
  [Tanggal |-> "01 Jan", Jam |-> "02:00:00 WIB", DateTime |-> Chars_2_0_0,
   Coordinates |-> Some(<<"-", "3", ".", "5", ",", "2">>),
   Magnitude |-> <<"7", ".", "5">>,
   Kedalaman |-> Some(<<"5", " ", "k", "m">>),
   Wilayah |-> "Sulawesi", Potensi |-> Some("Berpotensi tsunami"),
   Dirasakan |-> <<>>, Shakemap |-> <<>>]

\* an entry without the Coordinates field
ENoCoords ==
  [Tanggal |-> "01 Jan", Jam |-> "03:00:00 WIB", DateTime |-> Chars_3_0_0,
   Coordinates |-> <<>>,
   Magnitude |-> <<"5">>,
   Kedalaman |-> Some(<<"8", " ", "k", "m">>),
   Wilayah |-> "Papua", Potensi |-> <<>>,
   Dirasakan |-> <<>>, Shakemap |-> <<>>]

\* a well-formed entry of a third event
EPapua ==
  [Tanggal |-> "01 Jan", Jam |-> "03:00:00 WIB", DateTime |-> Chars_3_0_0,
   Coordinates |-> Some(<<"0", ",", "9">>),
   Magnitude |-> <<"3", ".", "0">>,
   Kedalaman |-> Some(<<"8", " ", "k", "m">>),
   Wilayah |-> "Papua", Potensi |-> <<>>,
   Dirasakan |-> <<>>, Shakemap |-> <<>>]

Chars_4_0_0 == <<"4", ":", "0", ":", "0">>

\* a fourth event, with white space around the numbers
EMaluku ==
  [Tanggal |-> "01 Jan", Jam |-> "04:00:00 WIB", DateTime |-> Chars_4_0_0,
   Coordinates |-> Some(<<" ", "1", ",", " ", "9", ".", "5">>),
   Magnitude |-> <<"6", ".", "0">>,
   Kedalaman |-> Some(<<"3", "0", "k", "m">>),
   Wilayah |-> "Maluku", Potensi |-> <<>>,
   Dirasakan |-> Some("II Ambon"), Shakemap |-> Some("b.jpg")]

\* another event at the time of EMaluku, at the place of EPapua
ETernate ==
  [Tanggal |-> "01 Jan", Jam |-> "04:00:00 WIB", DateTime |-> Chars_4_0_0,
   Coordinates |-> Some(<<"0", ".", "0", ",", "9">>),
   Magnitude |-> <<"5", ".", "9">>,
   Kedalaman |-> Some(<<"1", "2", " ", "k", "m">>),
   Wilayah |-> "Ternate", Potensi |-> <<>>,
   Dirasakan |-> <<>>, Shakemap |-> <<>>]

RawEntries ==
  {EJava, EJavaFelt, EBadMag, ESulawesi, ENoCoords, EPapua, EMaluku,
   ETernate}

\* ------------------------------------------------------------------------
\* parseAndInsertEarthquake: the normalization part
\* ------------------------------------------------------------------------

\* an id whose replace call has no g flag: the first match only
MakeId_ReplaceFirstOnly(DateTime, latitude, longitude) ==
  LET raw == DateTime \o <<"_">> \o NumToStr(latitude) \o <<"_">>
               \o NumToStr(longitude)
      hit == {i \in 1..Len(raw) : raw[i] = ":" \/ IsSpace(raw[i])}
  IN  IF hit = {} THEN raw
      ELSE [i \in 1..Len(raw) |->
              IF i = CHOOSE j \in hit : \A k \in hit : j <= k
              THEN "_" ELSE raw[i]]

\* the id template and its replace call
MakeId(DateTime, latitude, longitude) ==
  ReplaceColonSpaceAll(
    DateTime \o <<"_">> \o NumToStr(latitude) \o <<"_">> \o NumToStr(longitude))

\* data.Coordinates.split and data.Kedalaman.replace raise a TypeError on an
\* undefined field; nothing else in the normalization raises
NormalizeThrows(data) == data.Coordinates = <<>> \/ data.Kedalaman = <<>>

\* parseFloat(coords[0]) and parseFloat(coords[1]) of an entry that has the
\* Coordinates field
ParsedLatitude(data) == parseFloat(At(Split(data.Coordinates[1], ","), 0))

ParsedLongitude(data) == parseFloat(At(Split(data.Coordinates[1], ","), 1))

\* the earthquakeData object literal
EarthquakeData(data, t, id) ==
  [id                |-> id,
   datetime          |-> data.Tanggal \o " " \o data.Jam,
   timestamp         |-> DateParse(data.DateTime),
   magnitude         |-> parseFloatStr(data.Magnitude),
   depth             |-> parseFloatStr(
                           ReplaceFirst(data.Kedalaman[1], <<" ", "k", "m">>, <<>>)),
   latitude          |-> ParsedLatitude(data),
   longitude         |-> ParsedLongitude(data),
   region            |-> data.Wilayah,
   tsunami_potential |-> OrNull(data.Potensi),
   felt_status       |-> OrNull(data.Dirasakan),
   shakemap_url      |-> IF data.Shakemap = <<>> \/ data.Shakemap = <<"">>
                         THEN Null
                         ELSE Some(BMKG_BASE_URL \o "/" \o data.Shakemap[1]),
   created_at        |-> Num(10 * t)]

\* a normalization that builds the id from the raw Coordinates string
Normalize_RawCoordinatesId(data, t) ==
  EarthquakeData(data, t,
    ReplaceColonSpaceAll(data.DateTime \o <<"_">> \o data.Coordinates[1]))

\* the SupabaseEarthquake built from a feed entry at wall-clock time t
Normalize(data, t) ==
  EarthquakeData(data, t,
    MakeId(data.DateTime, ParsedLatitude(data), ParsedLongitude(data)))

\* ------------------------------------------------------------------------
\* Bounds
\* ------------------------------------------------------------------------

\* ingestion cycles (initial fetch and timer firings) in one run
MaxCycles == 2

\* wall-clock readings: Date.now() ranges over 0..MaxClock
MaxClock == 1

\* records in one call of upsertEarthquakes
MaxBatch == 2

\* calls of upsertEarthquakes in one run
MaxBatchCalls == 1

\* ------------------------------------------------------------------------
\* State
\* ------------------------------------------------------------------------

VARIABLES
  norm,         \* two feed entries and what parseAndInsertEarthquake makes of them
  published,    \* the document each feed currently publishes
  supabase,     \* TRUE when the client was created (credentials present)
  booted,       \* the top level of index.ts has run
  scheduled,    \* the cron job is registered
  store,        \* the rows of the earthquakes table
  now,          \* the wall clock, in milliseconds
  cycles,       \* the calls of fetchAllEarthquakes, in start order
  lastWritten,  \* the row of the last successful write and how often it
                \* was written in a row
  dbTouched,    \* some request was sent to the table
  batch,        \* the last call of upsertEarthquakes
  resp,         \* the last HTTP response
  stats         \* the GET /stats request being served

vars == <<norm, published, supabase, booted, scheduled, store, now, cycles, lastWritten,
          dbTouched, batch, resp, stats>>

Feeds == {"autogempa", "gempaterkini", "gempadirasakan"}

CycleIds == 1..MaxCycles

\* ------------------------------------------------------------------------
\* The earthquakes table behind the client
\* ------------------------------------------------------------------------

\* the rows stored under an id
RowsOf(s, id) == {x \in s : x.id = id}

\* a plain insert: no conflict handling
DbInsertRow(s, row) == s \cup {row}

\* upsert(row, {onConflict: "id"}) when the statement succeeds: the row
\* replaces the row of the same id
DbUpsertRow(s, row) == {x \in s : x.id # row.id} \cup {row}

\* what the table and the client answer to one single-row upsert
UpsertOutcomes == {"ok", "error", "throw"}

\* the table after a single-row upsert that ended with the given outcome
DbAfterUpsert(s, row, outcome) ==
  IF outcome = "ok" THEN DbUpsertRow(s, row) ELSE s

\* ------------------------------------------------------------------------
\* upsertEarthquake
\* ------------------------------------------------------------------------

\* an upsertEarthquake that does not look at the error of the result
upsertEarthquakeReturn_ErrorIgnored(outcome) ==
  CASE outcome = "throw" -> FALSE
    [] OTHER             -> TRUE

\* the value upsertEarthquake resolves to for an outcome of the table call
upsertEarthquakeReturn(outcome) ==
  CASE outcome = "throw" -> FALSE
    [] outcome = "error" -> FALSE
    [] OTHER             -> TRUE

\* ------------------------------------------------------------------------
\* One feed branch of a cycle
\* ------------------------------------------------------------------------

IdleBranch ==
  [pc |-> "idle", fetchFailed |-> FALSE, isArray |-> FALSE, doc |-> <<>>,
   idx |-> 0, pending |-> <<>>, calls |-> 0, written |-> 0, failed |-> 0,
   errs |-> 0]

IdleCycle == [status |-> "idle", br |-> [f \in Feeds |-> IdleBranch]]

\* A feed document: Infogempa.gempa is an array of entries, one entry, or
\* missing
ArrayDoc(items) == [kind |-> "array", items |-> items]

ObjectDoc(e) == [kind |-> "object", items |-> <<e>>]

NoneDoc == [kind |-> "none", items |-> <<>>]

\* What the three feeds publish during a run.  In the first the same event
\* reaches two feeds, one list entry raises and a list feed answers with a
\* single entry; in the second a list holds a malformed magnitude and the
\* single-entry feed answers with a list; in the third a list names one
\* event twice.
Scenarios ==
  { [autogempa      |-> ObjectDoc(EJava),
     gempaterkini   |-> ObjectDoc(EPapua),
     gempadirasakan |-> ArrayDoc(<<ENoCoords, EJavaFelt>>)],
    [autogempa      |-> ArrayDoc(<<EJava>>),
     gempaterkini   |-> ArrayDoc(<<EBadMag, EPapua>>),
     gempadirasakan |-> ArrayDoc(<<>>)],
    [autogempa      |-> NoneDoc,
     gempaterkini   |-> ArrayDoc(<<ENoCoords>>),
     gempadirasakan |-> ArrayDoc(<<EJava, EJavaFelt>>)] }

\* the index of the element of a list of n that comes i-th in reverse order
Mirror(n, i) == n + 1 - i

\* a branch that walks a list from its end
EntriesOf_Reversed(f, d) ==
  IF f = "autogempa"
  THEN IF d.kind = "object" THEN d.items ELSE <<>>
  ELSE IF d.kind = "array"
  THEN [i \in 1..Len(d.items) |-> d.items[Mirror(Len(d.items), i)]]
  ELSE <<>>

\* the entries a branch hands to parseAndInsertEarthquake for a document
EntriesOf(f, d) ==
  IF f = "autogempa"
  THEN IF d.kind = "object" THEN d.items ELSE <<>>
  ELSE IF d.kind = "array" THEN d.items ELSE <<>>

\* The branch runs on from entry idx+1 until it awaits the table or the
\* list ends.  An entry whose normalization raises is caught inside
\* parseAndInsertEarthquake; an unconfigured client makes upsertEarthquake
\* return false without a request.
RECURSIVE Advance(_, _, _)
Advance(b, t, configured) ==
  IF b.idx = Len(b.doc) THEN [b EXCEPT !.pc = "done"]
  ELSE LET data == b.doc[b.idx + 1]
       IN  IF NormalizeThrows(data)
           THEN Advance([b EXCEPT !.idx = @ + 1], t, configured)
           ELSE IF ~configured
           THEN Advance([b EXCEPT !.idx = @ + 1, !.calls = @ + 1,
                                  !.failed = @ + 1], t, configured)
           ELSE [b EXCEPT !.pc = "upserting", !.calls = @ + 1,
                          !.pending = Some(Normalize(data, t))]

\* a fetch function without its catch block: the branch rejects
BranchAfterFetchError_NoCatch(b) ==
  [b EXCEPT !.pc = "rejected", !.fetchFailed = TRUE]

\* the catch block of a fetch function: the error is logged, the branch
\* resolves
BranchAfterFetchError(b) == [b EXCEPT !.pc = "done", !.fetchFailed = TRUE]

\* a cycle that does not wait for the upserts of its branches
Settle_NoJoin(c) ==
  [c EXCEPT !.status =
     IF c.status # "running" THEN c.status
     ELSE IF \E f \in Feeds : c.br[f].pc = "rejected" THEN "rejected"
     ELSE IF \A f \in Feeds : c.br[f].pc \in {"done", "upserting"}
     THEN "resolved"
     ELSE "running"]

\* Promise.all over the three branches: rejected as soon as one rejects,
\* resolved when all have resolved
Settle(c) ==
  [c EXCEPT !.status =
     IF c.status # "running" THEN c.status
     ELSE IF \E f \in Feeds : c.br[f].pc = "rejected" THEN "rejected"
     ELSE IF \A f \in Feeds : c.br[f].pc = "done" THEN "resolved"
     ELSE "running"]

\* fetchAllEarthquakes(): the three fetch functions run up to their
\* first await
StartedCycle == [status |-> "running",
                 br |-> [f \in Feeds |-> [IdleBranch EXCEPT !.pc = "fetching"]]]

\* ------------------------------------------------------------------------
\* Initial state
\* ------------------------------------------------------------------------

NoWrite == [row |-> <<>>, times |-> 0]

NoBatch == [calls |-> 0, rows |-> <<>>, ret |-> 0, written |-> 0]

NoResp == [route |-> "none", status |-> 0, queries |-> 0, q |-> <<>>,
           body |-> <<>>]

NoStats == [pc |-> "idle", total |-> 0, strongest |-> <<>>, today |-> 0,
            todayCount |-> 0]

NoNorm == [slot \in {1, 2} |-> [data |-> <<>>, t |-> 0, done |-> FALSE, out |-> <<>>]]

\* the process before the top level of index.ts has run
InitProcess ==
  /\ supabase \in BOOLEAN
  /\ booted = FALSE
  /\ scheduled = FALSE
  /\ now = 0
  /\ cycles = [c \in CycleIds |-> IdleCycle]
  /\ lastWritten = NoWrite
  /\ dbTouched = FALSE
  /\ batch = NoBatch
  /\ resp = NoResp
  /\ stats = NoStats

\* a process started over an empty table
Init ==
  /\ InitProcess
  /\ norm = NoNorm
  /\ published \in Scenarios
  /\ store = {}

\* ------------------------------------------------------------------------
\* index.ts: start-up and the scheduled job
\* ------------------------------------------------------------------------

\* the first cycle that has not been started, 0 when all have
NextCycle ==
  IF \E c \in CycleIds : cycles[c].status = "idle"
  THEN CHOOSE c \in CycleIds :
         cycles[c].status = "idle"
           /\ \A d \in CycleIds : cycles[d].status = "idle" => c <= d
  ELSE 0

\* the configuration check at start-up: with a client the initial fetch
\* starts and the job is scheduled, without one neither happens
Boot ==
  /\ ~booted
  /\ booted' = TRUE
  /\ IF supabase
     THEN /\ cycles' = [cycles EXCEPT ![1] = StartedCycle]
          /\ scheduled' = TRUE
     ELSE UNCHANGED <<cycles, scheduled>>
  /\ UNCHANGED <<norm, published, supabase, store, now, lastWritten, dbTouched, batch, resp, stats>>

\* the cron callback: a new cycle starts whether or not an earlier one is
\* still running
CronFire ==
  /\ scheduled
  /\ NextCycle # 0
  /\ cycles' = [cycles EXCEPT ![NextCycle] = StartedCycle]
  /\ UNCHANGED <<norm, published, supabase, booted, scheduled, store, now, lastWritten,
                 dbTouched, batch, resp, stats>>

\* ------------------------------------------------------------------------
\* The feed branches
\* ------------------------------------------------------------------------

\* axios.get resolves with a document
FetchResolve(c, f) ==
  /\ cycles[c].br[f].pc = "fetching"
  /\ LET d  == published[f]
         b0 == [cycles[c].br[f] EXCEPT !.isArray = (d.kind = "array"),
                                       !.doc = EntriesOf(f, d)]
         b1 == Advance(b0, now, supabase)
     IN  cycles' = [cycles EXCEPT ![c] = Settle([@ EXCEPT !.br[f] = b1])]
  /\ UNCHANGED <<norm, published, supabase, booted, scheduled, store, now, lastWritten,
                 dbTouched, batch, resp, stats>>

\* axios.get rejects (network error, timeout) or the document has no
\* Infogempa object
FetchFail(c, f) ==
  /\ cycles[c].br[f].pc = "fetching"
  /\ cycles' = [cycles EXCEPT ![c] =
                  Settle([@ EXCEPT !.br[f] = BranchAfterFetchError(@)])]
  /\ UNCHANGED <<norm, published, supabase, booted, scheduled, store, now, lastWritten,
                 dbTouched, batch, resp, stats>>

\* the awaited upsert of the pending record ends; the branch goes on
UpsertResolve(c, f, outcome) ==
  /\ cycles[c].br[f].pc = "upserting"
  /\ LET b   == cycles[c].br[f]
         row == b.pending[1]
         ret == upsertEarthquakeReturn(outcome)
         b0  == [b EXCEPT !.idx = @ + 1, !.pending = <<>>,
                          !.written = IF ret THEN @ + 1 ELSE @,
                          !.failed = IF ret THEN @ ELSE @ + 1,
                          !.errs = IF outcome = "ok" THEN @ ELSE @ + 1]
         b1  == Advance(b0, now, supabase)
     IN  /\ store' = DbAfterUpsert(store, row, outcome)
         /\ cycles' = [cycles EXCEPT ![c] = Settle([@ EXCEPT !.br[f] = b1])]
         /\ lastWritten' =
              IF outcome # "ok" THEN lastWritten
              ELSE IF lastWritten.row = Some(row)
              THEN [lastWritten EXCEPT !.times = IF @ < 2 THEN @ + 1 ELSE @]
              ELSE [row |-> Some(row), times |-> 1]
  /\ dbTouched' = TRUE
  /\ UNCHANGED <<norm, published, supabase, booted, scheduled, now, batch, resp, stats>>

\* time passes
Tick ==
  /\ now < MaxClock
  /\ now' = now + 1
  /\ UNCHANGED <<norm, published, supabase, booted, scheduled, store, cycles, lastWritten,
                 dbTouched, batch, resp, stats>>

NextIngest ==
  \/ Boot
  \/ CronFire
  \/ \E c \in CycleIds, f \in Feeds : FetchResolve(c, f)
  \/ \E c \in CycleIds, f \in Feeds : FetchFail(c, f)
  \/ \E c \in CycleIds, f \in Feeds, o \in UpsertOutcomes :
       UpsertResolve(c, f, o)
  \/ Tick

SpecIngest == Init /\ [][NextIngest]_vars

\* ------------------------------------------------------------------------
\* upsertEarthquakes
\* ------------------------------------------------------------------------

\* the table after the first k rows of a batch were written, in order
RECURSIVE DbAfterBatch(_, _, _)
DbAfterBatch(s, rows, k) ==
  IF k = 0 THEN s
  ELSE DbUpsertRow(DbAfterBatch(s, rows, k - 1), rows[k])

\* What the table and the client answer to a batch: every row written, or
\* an error result or an exception after the first k rows, k < Len(rows),
\* were written (the batch need not be atomic).
BatchOutcomes(rows) ==
  {[kind |-> "ok", k |-> Len(rows)]}
    \cup {[kind |-> kd, k |-> k] : kd \in {"error", "throw"},
                                   k \in 0..(Len(rows) - 1)}

\* the number upsertEarthquakes resolves to
upsertEarthquakesReturn(configured, rows, outcome) ==
  IF ~configured \/ Len(rows) = 0 THEN 0
  ELSE IF outcome.kind = "ok" THEN Len(rows)
  ELSE 0

\* the feed entries whose normalization does not raise
GoodEntries == {e \in RawEntries : ~NormalizeThrows(e)}

\* the batches a caller may pass at wall-clock time t
Batches(t) ==
  UNION {[1..n -> {Normalize(e, t) : e \in GoodEntries}] : n \in 0..MaxBatch}

\* one call of upsertEarthquakes
BatchUpsert(rows, outcome) ==
  LET sent == supabase /\ Len(rows) > 0
      k    == IF sent THEN outcome.k ELSE 0
  IN  /\ batch.calls < MaxBatchCalls
      /\ sent => outcome \in BatchOutcomes(rows)
      /\ ~sent => outcome = [kind |-> "ok", k |-> Len(rows)]
      /\ store' = DbAfterBatch(store, rows, k)
      /\ batch' = [calls |-> batch.calls + 1, rows |-> rows,
                   ret |-> upsertEarthquakesReturn(supabase, rows, outcome),
                   written |-> k]
      /\ lastWritten' = IF k = 0 THEN lastWritten
                        ELSE [row |-> Some(rows[k]), times |-> 1]
      /\ dbTouched' = (dbTouched \/ sent)
      /\ UNCHANGED <<norm, published, supabase, booted, scheduled, now, cycles,
                     resp, stats>>

NextBatch ==
  \/ \E rows \in Batches(now) :
       \E o \in BatchOutcomes(rows) : BatchUpsert(rows, o)
  \/ Tick

\* the rows a table may hold when the process starts: records written by
\* earlier runs, one per id
SeedStores ==
  LET rows == {Normalize(e, 0) : e \in GoodEntries}
  IN  {s \in SUBSET rows : \A x \in s : \A y \in s : x.id = y.id => x = y}

\* a process started over a table that earlier runs have filled
InitBatch ==
  /\ InitProcess
  /\ norm = NoNorm
  /\ published \in Scenarios
  /\ store \in {s \in SeedStores : Cardinality(s) <= 1}

SpecBatch == InitBatch /\ [][NextBatch]_vars

\* C9 (as claimed): the number upsertEarthquakes returns is the number of
\* records of the batch that were written to the table.
C9_BatchCountIsWritten == batch.ret = batch.written

\* ------------------------------------------------------------------------
\* The normalization as a function of the entry and the clock
\* ------------------------------------------------------------------------

\* two feed entries, each normalized at its own wall-clock time
InitNormalize ==
  /\ InitProcess
  /\ published \in Scenarios
  /\ store = {}
  /\ norm \in [{1, 2} -> [data : {Some(e) : e \in GoodEntries},
                          t : 0..MaxClock, done : {FALSE}, out : {<<>>}]]

NormalizeEntry(slot) ==
  /\ ~norm[slot].done
  /\ norm' = [norm EXCEPT ![slot].done = TRUE,
                          ![slot].out = Some(Normalize(norm[slot].data[1],
                                                       norm[slot].t))]
  /\ UNCHANGED <<published, supabase, booted, scheduled, store, now, cycles,
                 lastWritten, dbTouched, batch, resp, stats>>

NextNormalize == \E slot \in {1, 2} : NormalizeEntry(slot)

SpecNormalize == InitNormalize /\ [][NextNormalize]_vars

\* every colon and white space character of a string replaced, one
\* character at a time
RECURSIVE Underscored(_)
Underscored(s) ==
  IF s = <<>> THEN <<>>
  ELSE <<IF Head(s) \in {":", " ", "\t", "\n", "\r"} THEN "_" ELSE Head(s)>>
         \o Underscored(Tail(s))

\* the reference id of (DateTime, latitude, longitude)
ReferenceId(DateTime, latitude, longitude) ==
  Underscored(DateTime) \o <<"_">> \o Underscored(NumToStr(latitude))
    \o <<"_">> \o Underscored(NumToStr(longitude))

\* two entries name the same event
SameKey(d, e) ==
  /\ d.DateTime = e.DateTime
  /\ ParsedLatitude(d) = ParsedLatitude(e)
  /\ ParsedLongitude(d) = ParsedLongitude(e)

\* C8: the id of a normalized entry is the reference function of its
\* DateTime and its parsed latitude and longitude, holds no colon and no
\* white space, and so is the same at every wall-clock time and for two
\* entries that differ only outside DateTime, latitude and longitude.
C8_IdIsReferenceFunction ==
  /\ \A i \in {1, 2} :
       norm[i].done =>
         LET d == norm[i].data[1]
             r == norm[i].out[1]
         IN  /\ r.id = ReferenceId(d.DateTime, ParsedLatitude(d),
                                   ParsedLongitude(d))
             /\ \A k \in 1..Len(r.id) : r.id[k] # ":" /\ ~IsSpace(r.id[k])
  /\ (norm[1].done /\ norm[2].done
        /\ SameKey(norm[1].data[1], norm[2].data[1]))
       => norm[1].out[1].id = norm[2].out[1].id

\* C8 witness: two entries of one event that differ in every other field,
\* normalized at different times, with one id
C8_Witness ==
  /\ norm[1].done /\ norm[2].done
  /\ norm[1].data[1] = EJava /\ norm[2].data[1] = EJavaFelt
  /\ norm[1].t # norm[2].t
  /\ norm[1].out[1].id = norm[2].out[1].id
  /\ norm[1].out[1].region # norm[2].out[1].region

\* ------------------------------------------------------------------------
\* Properties of the ingestion pipeline
\* ------------------------------------------------------------------------

Branches == CycleIds \X Feeds

BranchAt(cb) == cycles[cb[1]].br[cb[2]]

\* the records on their way to the table
PendingRows == {BranchAt(cb).pending[1] : cb \in {x \in Branches : BranchAt(x).pending # <<>>}}

SameEvent(x, y) ==
  x.timestamp = y.timestamp /\ x.latitude = y.latitude
    /\ x.longitude = y.longitude

\* C1: the table holds at most one row per id, and records of the same
\* event (same DateTime, latitude and longitude), whatever feed they came
\* through, carry one id and so occupy a single row.
C1_OneRowPerEvent ==
  /\ \A x \in store : \A y \in store : x.id = y.id => x = y
  /\ \A x \in store \cup PendingRows : \A y \in store \cup PendingRows :
       SameEvent(x, y) => x.id = y.id
  /\ \A x \in store : \A y \in store : SameEvent(x, y) => x = y

\* C1 witness: the event of EJava was written through the single-entry feed
\* and through the felt list, and the table holds one row for it
C1_Witness ==
  \E c \in CycleIds :
    /\ published["autogempa"] = ObjectDoc(EJava)
    /\ cycles[c].br["autogempa"].written = 1
    /\ cycles[c].br["gempadirasakan"].written = 1
    /\ Cardinality(store) = 1

IsNumeric(row) ==
  ~row.magnitude.nan /\ ~row.depth.nan /\ ~row.latitude.nan
    /\ ~row.longitude.nan

MalformedMagnitude(data) == parseFloatStr(data.Magnitude).nan

\* C2 (as claimed): no record with a non-numeric magnitude, depth, latitude
\* or longitude is handed to the table or stored, and a list of N entries
\* with exactly one malformed magnitude causes exactly N-1 upsert calls.
C2_MalformedNeverUpserted ==
  /\ \A x \in store \cup PendingRows : IsNumeric(x)
  /\ \A cb \in Branches :
       LET b == BranchAt(cb)
       IN  (b.pc = "done" /\ b.isArray
              /\ Cardinality({i \in 1..Len(b.doc) : MalformedMagnitude(b.doc[i])}) = 1
              /\ \A i \in 1..Len(b.doc) : ~NormalizeThrows(b.doc[i]))
             => b.calls = Len(b.doc) - 1

\* C4: a branch whose fetch failed made no upsert call; the cycle is never
\* rejected; when it has resolved, every branch whose fetch succeeded has
\* passed every entry of its document through parseAndInsertEarthquake.
C4_FetchFailureIsolated ==
  /\ \A cb \in Branches :
       BranchAt(cb).fetchFailed =>
         /\ BranchAt(cb).pc = "done"
         /\ BranchAt(cb).calls = 0
         /\ BranchAt(cb).written = 0
  /\ \A c \in CycleIds :
       /\ cycles[c].status # "rejected"
       /\ \A f \in Feeds : cycles[c].br[f].pc # "rejected"
       /\ cycles[c].status = "resolved" =>
            \A f \in Feeds :
              LET b == cycles[c].br[f]
              IN  /\ b.pc = "done"
                  /\ ~b.fetchFailed =>
                       /\ b.doc = EntriesOf(f, published[f])
                       /\ b.idx = Len(b.doc)

\* C4 witness: a resolved cycle in which one fetch failed and another
\* branch wrote both entries of its list
C4_Witness ==
  \E c \in CycleIds :
    /\ cycles[c].status = "resolved"
    /\ cycles[c].br["autogempa"].fetchFailed
    /\ cycles[c].br["gempadirasakan"].written = 2

\* C6: a failing table call makes upsertEarthquake return false and leaves
\* the table as it was; the branch goes on with the next entry or ends, the
\* cycle is not rejected, and a resolved cycle has processed every entry.
C6_WriteFailureContained ==
  /\ [](\A c \in CycleIds :
          /\ cycles[c].status # "rejected"
          /\ \A f \in Feeds :
               /\ cycles[c].br[f].failed = cycles[c].br[f].errs
               /\ cycles[c].status = "resolved" =>
                    cycles[c].br[f].idx = Len(cycles[c].br[f].doc))
  /\ [][\A cb \in Branches :
          LET b  == cycles[cb[1]].br[cb[2]]
              b2 == cycles'[cb[1]].br[cb[2]]
          IN  b2.errs > b.errs =>
                /\ store' = store
                /\ b2.failed = b.failed + 1
                /\ b2.written = b.written
                /\ b2.idx > b.idx
                /\ b2.pc \in {"upserting", "done"}]_vars

\* C6 witness: a list branch whose first write failed and whose second
\* entry was written, in a resolved cycle
C6_Witness ==
  \E c \in CycleIds :
    /\ cycles[c].status = "resolved"
    /\ cycles[c].br["gempadirasakan"].errs = 1
    /\ cycles[c].br["gempadirasakan"].written = 1
    /\ cycles[c].br["gempadirasakan"].idx = 2
    /\ store # {}

\* C7 (as claimed): once a row is stored under an id, the created_at stored
\* under that id never changes.
C7_CreatedAtSetOnce ==
  [][\A x \in store : \A y \in store' :
       y.id = x.id => y.created_at = x.created_at]_vars

\* C3: a successful upsert of r leaves exactly r under r.id, and when r is
\* the record the last successful write already stored (the same record
\* upserted twice in a row) the table does not change.
C3_UpsertIdempotent ==
  [][\A cb \in Branches :
       LET b  == cycles[cb[1]].br[cb[2]]
           b2 == cycles'[cb[1]].br[cb[2]]
       IN  (b.pc = "upserting" /\ b2.written = b.written + 1) =>
             /\ RowsOf(store', b.pending[1].id) = {b.pending[1]}
             /\ lastWritten.row = b.pending => store' = store]_vars

\* C3 witness: the same record was written twice in a row
C3_Witness == lastWritten.times = 2 /\ Cardinality(store) >= 2

\* ------------------------------------------------------------------------
\* routes/earthquakes.ts: queries on the table
\* ------------------------------------------------------------------------

\* a query parameter with a destructuring default
OrDefault(x, d) == IF x = <<>> THEN d ELSE x[1]

\* truthiness of an optional string
Truthy(x) == x # <<>> /\ x[1] # <<>>

\* the integer a parseInt result stands for
IntOf(n) == n.v \div 10

\* gte / lte filters and <= on numbers: false when a side is null or NaN
Gte(a, b) == ~a.nan /\ ~b.nan /\ a.v >= b.v

Lte(a, b) == ~a.nan /\ ~b.nan /\ a.v <= b.v

\* ORDER BY ... DESC: nulls first, rows with equal keys in any order
DescBefore(a, b) == a.nan \/ (~b.nan /\ a.v >= b.v)

\* .order("timestamp", {ascending: false}): the orders the table may
\* return the rows in
RECURSIVE OrderedByTimestampDesc(_)
OrderedByTimestampDesc(S) ==
  IF S = {} THEN {<<>>}
  ELSE UNION {{<<x>> \o o : o \in OrderedByTimestampDesc(S \ {x})} :
                x \in {y \in S : \A z \in S :
                                   DescBefore(y.timestamp, z.timestamp)}}

\* .order("magnitude", {ascending: false})
RECURSIVE OrderedByMagnitudeDesc(_)
OrderedByMagnitudeDesc(S) ==
  IF S = {} THEN {<<>>}
  ELSE UNION {{<<x>> \o o : o \in OrderedByMagnitudeDesc(S \ {x})} :
                x \in {y \in S : \A z \in S :
                                   DescBefore(y.magnitude, z.magnitude)}}

\* .range(from, to): the rows at the zero-based positions from..to
Range(o, from, to) ==
  SubSeq(o, from + 1, IF to + 1 < Len(o) THEN to + 1 ELSE Len(o))

\* the last row instead of the first
Limit1_Last(o) == IF o = <<>> THEN <<>> ELSE <<o[Len(o)]>>

\* .limit(1)
Limit1(o) == IF o = <<>> THEN <<>> ELSE <<o[1]>>

Resp(route, status, queries, q, body) ==
  [route |-> route, status |-> status, queries |-> queries, q |-> q,
   body |-> body]

ConfigError ==
  [success |-> FALSE,
   error |-> "Database not configured. Please set SUPABASE_URL and SUPABASE_ANON_KEY in .env"]

QueryError == [success |-> FALSE, error |-> "query failed"]

\* ------------------------------------------------------------------------
\* GET /api/earthquakes
\* ------------------------------------------------------------------------

DefaultLimit == <<"5", "0">>

DefaultOffset == <<"0">>

\* the rows the magnitude filters of a request keep
ListFilter(S, q) ==
  {x \in S :
     /\ Truthy(q.minMagnitude) => Gte(x.magnitude, parseFloatStr(q.minMagnitude[1]))
     /\ Truthy(q.maxMagnitude) => Lte(x.magnitude, parseFloatStr(q.maxMagnitude[1]))}

ListFrom(q) == IntOf(parseInt(OrDefault(q.offset, DefaultOffset)))

\* a last position computed without the - 1
ListTo_OffByOne(q) ==
  ListFrom(q) + IntOf(parseInt(OrDefault(q.limit, DefaultLimit)))

ListTo(q) ==
  ListFrom(q) + IntOf(parseInt(OrDefault(q.limit, DefaultLimit))) - 1

\* the response, given the order the table returned the filtered rows in
\* and whether the query succeeded
ListResponse(configured, q, ord, ok) ==
  IF ~configured THEN Resp("list", 503, 0, q, ConfigError)
  ELSE IF ~ok THEN Resp("list", 500, 1, q, QueryError)
  ELSE Resp("list", 200, 1, q,
            [success |-> TRUE,
             data |-> Range(ord, ListFrom(q), ListTo(q)),
             pagination |->
               [total |-> Len(ord),
                limit |-> parseInt(OrDefault(q.limit, DefaultLimit)),
                offset |-> parseInt(OrDefault(q.offset, DefaultOffset))]])

ListRoute(q, ord, ok) ==
  /\ booted
  /\ stats.pc = "idle"
  /\ ord \in OrderedByTimestampDesc(ListFilter(store, q))
  /\ resp' = ListResponse(supabase, q, ord, ok)
  /\ dbTouched' = (dbTouched \/ supabase)
  /\ UNCHANGED <<norm, published, supabase, booted, scheduled, store, now,
                 cycles, lastWritten, batch, stats>>

\* ------------------------------------------------------------------------
\* GET /api/earthquakes/latest
\* ------------------------------------------------------------------------

LatestResponse(configured, ord, ok) ==
  IF ~configured THEN Resp("latest", 503, 0, <<>>, ConfigError)
  ELSE IF ~ok THEN Resp("latest", 500, 1, <<>>, QueryError)
  ELSE IF Limit1(ord) = <<>>
  THEN Resp("latest", 404, 1, <<>>,
            [success |-> FALSE, error |-> "No earthquakes found"])
  ELSE Resp("latest", 200, 1, <<>>,
            [success |-> TRUE, data |-> Limit1(ord)[1]])

LatestRoute(ord, ok) ==
  /\ booted
  /\ stats.pc = "idle"
  /\ ord \in OrderedByTimestampDesc(store)
  /\ resp' = LatestResponse(supabase, ord, ok)
  /\ dbTouched' = (dbTouched \/ supabase)
  /\ UNCHANGED <<norm, published, supabase, booted, scheduled, store, now,
                 cycles, lastWritten, batch, stats>>

\* ------------------------------------------------------------------------
\* GET /api/earthquakes/nearby
\* ------------------------------------------------------------------------

DefaultRadius == <<"1", "0", "0">>

\* calculateDistance of utils/distance: the great-circle distance between
\* two points, in hundredths of a kilometre, for the coordinates of the
\* feed entries and of the query points; NaN when a coordinate is NaN
calculateDistance(lat1, lon1, lat2, lon2) ==
  IF lat1.nan \/ lon1.nan \/ lat2.nan \/ lon2.nan
  THEN [nan |-> TRUE, km100 |-> 0]
  ELSE LET p == <<lat1.v, lon1.v>>
           r == <<lat2.v, lon2.v>>
       IN  [nan |-> FALSE,
            km100 |->
              CASE p = r -> 0
                [] p = <<70, 10>> /\ r = <<-35, 20>> -> 117281
                [] p = <<70, 10>> /\ r = <<0, 90>>   -> 118035
                [] p = <<70, 10>> /\ r = <<10, 95>>  -> 115467
                [] p = <<5, 90>> /\ r = <<70, 10>>   -> 114432
                [] p = <<5, 90>> /\ r = <<-35, 20>>  -> 89611
                [] p = <<5, 90>> /\ r = <<0, 90>>    -> 5560
                [] p = <<5, 90>> /\ r = <<10, 95>>   -> 7862]

\* Math.round(distance * 10) / 10
RoundToTenth(d) == IF d.nan THEN NaN ELSE Num((d.km100 + 5) \div 10)

\* the row with its rounded distance to the query point
WithDistance(row, userLat, userLng) ==
  [eq |-> row,
   distance |-> RoundToTenth(
                  calculateDistance(userLat, userLng, row.latitude,
                                    row.longitude))]

\* Array.prototype.filter
RECURSIVE FilterWithin(_, _)
FilterWithin(xs, radiusKm) ==
  IF xs = <<>> THEN <<>>
  ELSE (IF Lte(Head(xs).distance, radiusKm) THEN <<Head(xs)>> ELSE <<>>)
         \o FilterWithin(Tail(xs), radiusKm)

\* x put into a list sorted by distance, after the elements that are not
\* farther than it
RECURSIVE InsertByDistance(_, _)
InsertByDistance(sorted, x) ==
  IF sorted = <<>> THEN <<x>>
  ELSE IF Head(sorted).distance.v <= x.distance.v
  THEN <<Head(sorted)>> \o InsertByDistance(Tail(sorted), x)
  ELSE <<x>> \o sorted

\* Array.prototype.sort((a, b) => a.distance - b.distance): stable
RECURSIVE SortByDistance(_)
SortByDistance(xs) ==
  IF xs = <<>> THEN <<>>
  ELSE InsertByDistance(SortByDistance(SubSeq(xs, 1, Len(xs) - 1)),
                        xs[Len(xs)])

\* the body of a successful /nearby response
NearbyBody(q, ord) ==
  LET userLat  == parseFloatStr(q.lat[1])
      userLng  == parseFloatStr(q.lng[1])
      radiusKm == parseFloatStr(OrDefault(q.radius, DefaultRadius))
      mapped   == [i \in 1..Len(ord) |->
                     WithDistance(ord[i], userLat, userLng)]
  IN  [success |-> TRUE,
       data |-> SortByDistance(FilterWithin(mapped, radiusKm)),
       userLocation |-> [latitude |-> userLat, longitude |-> userLng],
       radius |-> radiusKm]

MissingLatLng ==
  [success |-> FALSE, error |-> "Latitude and longitude are required"]

\* a /nearby handler that queries the table before it validates lat and lng
NearbyResponse_QueryFirst(configured, q, ord, ok) ==
  IF ~configured THEN Resp("nearby", 503, 0, q, ConfigError)
  ELSE IF ~ok THEN Resp("nearby", 500, 1, q, QueryError)
  ELSE IF ~Truthy(q.lat) \/ ~Truthy(q.lng)
  THEN Resp("nearby", 400, 1, q, MissingLatLng)
  ELSE Resp("nearby", 200, 1, q, NearbyBody(q, ord))

\* a /nearby handler that validates lat and lng before the availability
\* check
NearbyResponse_ValidateFirst(configured, q, ord, ok) ==
  IF ~Truthy(q.lat) \/ ~Truthy(q.lng)
  THEN Resp("nearby", 400, 0, q, MissingLatLng)
  ELSE IF ~configured THEN Resp("nearby", 503, 0, q, ConfigError)
  ELSE IF ~ok THEN Resp("nearby", 500, 1, q, QueryError)
  ELSE Resp("nearby", 200, 1, q, NearbyBody(q, ord))

NearbyResponse(configured, q, ord, ok) ==
  IF ~configured THEN Resp("nearby", 503, 0, q, ConfigError)
  ELSE IF ~Truthy(q.lat) \/ ~Truthy(q.lng)
  THEN Resp("nearby", 400, 0, q, MissingLatLng)
  ELSE IF ~ok THEN Resp("nearby", 500, 1, q, QueryError)
  ELSE Resp("nearby", 200, 1, q, NearbyBody(q, ord))

NearbyRoute(q, ord, ok) ==
  /\ booted
  /\ stats.pc = "idle"
  /\ ord \in OrderedByTimestampDesc(store)
  /\ resp' = NearbyResponse(supabase, q, ord, ok)
  /\ dbTouched' = (dbTouched \/ (supabase /\ Truthy(q.lat) /\ Truthy(q.lng)))
  /\ UNCHANGED <<norm, published, supabase, booted, scheduled, store, now,
                 cycles, lastWritten, batch, stats>>

\* ------------------------------------------------------------------------
\* GET /api/earthquakes/:id
\* ------------------------------------------------------------------------

ByIdResponse(configured, id, rows, ok) ==
  IF ~configured THEN Resp("byId", 503, 0, id, ConfigError)
  ELSE IF ~ok THEN Resp("byId", 500, 1, id, QueryError)
  ELSE IF rows = {}
  THEN Resp("byId", 404, 1, id,
            [success |-> FALSE, error |-> "Earthquake not found"])
  ELSE Resp("byId", 200, 1, id,
            [success |-> TRUE, data |-> CHOOSE x \in rows : TRUE])

ByIdRoute(id, ok) ==
  /\ booted
  /\ stats.pc = "idle"
  /\ resp' = ByIdResponse(supabase, id, RowsOf(store, id), ok)
  /\ dbTouched' = (dbTouched \/ supabase)
  /\ UNCHANGED <<norm, published, supabase, booted, scheduled, store, now,
                 cycles, lastWritten, batch, stats>>

\* ------------------------------------------------------------------------
\* GET /api/earthquakes/stats: four queries, one after the other
\* ------------------------------------------------------------------------

\* milliseconds in a day
DayMs == 86400000

\* today.setHours(0, 0, 0, 0) for the wall-clock time t
StartOfDay(t) == t - (t % DayMs)

\* buckets whose upper bounds are closed
BucketOf_ClosedUpper(m) ==
  IF m.nan THEN 1
  ELSE IF m.v <= 50 THEN 1
  ELSE IF m.v <= 60 THEN 2
  ELSE IF m.v <= 70 THEN 3
  ELSE 4

\* the histogram bucket of a magnitude read from the table; a null
\* magnitude compares as 0
BucketOf(m) ==
  IF m.nan THEN 1
  ELSE IF m.v < 50 THEN 1
  ELSE IF m.v >= 50 /\ m.v < 60 THEN 2
  ELSE IF m.v >= 60 /\ m.v < 70 THEN 3
  ELSE 4

BucketRanges == <<"<5", "5-6", "6-7", "7+">>

\* byMagnitude after the forEach over the magnitudes of the rows
ByMagnitude(S) ==
  [k \in 1..4 |->
     [range |-> BucketRanges[k],
      count |-> Cardinality({x \in S : BucketOf(x.magnitude) = k})]]

StatsFailed(n) == Resp("stats", 500, n, <<>>, QueryError)

\* the request arrives: the availability check, then the count query is
\* sent
StatsBegin ==
  /\ booted
  /\ stats.pc = "idle"
  /\ IF ~supabase
     THEN /\ resp' = Resp("stats", 503, 0, <<>>, ConfigError)
          /\ UNCHANGED stats
     ELSE /\ resp' = NoResp
          /\ stats' = [NoStats EXCEPT !.pc = "total"]
  /\ UNCHANGED <<norm, published, supabase, booted, scheduled, store, now,
                 cycles, lastWritten, dbTouched, batch>>

\* the count of all rows
StatsTotal(ok) ==
  /\ stats.pc = "total"
  /\ IF ok
     THEN /\ stats' = [stats EXCEPT !.pc = "strongest",
                                    !.total = Cardinality(store)]
          /\ UNCHANGED resp
     ELSE /\ stats' = NoStats
          /\ resp' = StatsFailed(1)
  /\ dbTouched' = TRUE
  /\ UNCHANGED <<norm, published, supabase, booted, scheduled, store, now,
                 cycles, lastWritten, batch>>

\* the row of the largest magnitude; then the start of the day is taken
\* from the clock
StatsStrongest(ord, ok) ==
  /\ stats.pc = "strongest"
  /\ ord \in OrderedByMagnitudeDesc(store)
  /\ IF ok
     THEN /\ stats' = [stats EXCEPT !.pc = "today",
                                    !.strongest = Limit1(ord),
                                    !.today = StartOfDay(now)]
          /\ UNCHANGED resp
     ELSE /\ stats' = NoStats
          /\ resp' = StatsFailed(2)
  /\ dbTouched' = TRUE
  /\ UNCHANGED <<norm, published, supabase, booted, scheduled, store, now,
                 cycles, lastWritten, batch>>

\* the count of the rows of today
StatsToday(ok) ==
  /\ stats.pc = "today"
  /\ IF ok
     THEN /\ stats' = [stats EXCEPT
                         !.pc = "histogram",
                         !.todayCount =
                            Cardinality({x \in store :
                              Gte(x.timestamp, Num(10 * stats.today))})]
          /\ UNCHANGED resp
     ELSE /\ stats' = NoStats
          /\ resp' = StatsFailed(3)
  /\ dbTouched' = TRUE
  /\ UNCHANGED <<norm, published, supabase, booted, scheduled, store, now,
                 cycles, lastWritten, batch>>

\* the magnitudes of all rows, the histogram and the response
StatsHistogram(ok) ==
  /\ stats.pc = "histogram"
  /\ stats' = NoStats
  /\ resp' = IF ~ok THEN StatsFailed(4)
             ELSE Resp("stats", 200, 4, <<>>,
                       [success |-> TRUE,
                        data |-> [total |-> stats.total,
                                  todayCount |-> stats.todayCount,
                                  strongest |-> stats.strongest,
                                  byMagnitude |-> ByMagnitude(store)]])
  /\ dbTouched' = TRUE
  /\ UNCHANGED <<norm, published, supabase, booted, scheduled, store, now,
                 cycles, lastWritten, batch>>

\* ------------------------------------------------------------------------
\* Requests.  They are served one at a time: a request shares nothing with
\* another but the table, which requests only read.
\* ------------------------------------------------------------------------

ListQueries ==
  [limit : {<<>>, Some(<<"1">>), Some(<<"2">>)},
   offset : {<<>>, Some(<<"1">>), Some(<<"2">>), Some(<<"3">>)},
   minMagnitude : {<<>>, Some(<<"5">>)},
   maxMagnitude : {<<>>, Some(<<"6", ".", "0">>)}]

NearbyQueries ==
  [lat : {<<>>, Some(<<"7">>), Some(<<"0", ".", "5">>)},
   lng : {<<>>},
   radius : {<<>>}]
    \cup
  [lat : {<<>>, Some(<<>>)}, lng : {Some(<<"1">>)}, radius : {<<>>}]
    \cup
  {[lat |-> Some(<<"7">>), lng |-> Some(<<"1">>), radius |-> r] :
     r \in {<<>>, Some(<<"1", "1", "7", "2", ".", "8">>)}}
    \cup
  {[lat |-> Some(<<"0", ".", "5">>), lng |-> Some(<<"9">>), radius |-> r] :
     r \in {<<>>, Some(<<"5", "5", ".", "6">>)}}

\* the ids of the events of the feed entries, and one that is never stored
IdParams ==
  {Normalize(e, 0).id : e \in GoodEntries} \cup {<<"x">>}

\* the requests of the five routes, for given sets of parameters
Requests(listQueries, nearbyQueries, ids) ==
  \/ \E q \in listQueries, ok \in BOOLEAN :
       \E ord \in OrderedByTimestampDesc(ListFilter(store, q)) :
         ListRoute(q, ord, ok)
  \/ \E ok \in BOOLEAN :
       \E ord \in OrderedByTimestampDesc(store) : LatestRoute(ord, ok)
  \/ \E q \in nearbyQueries, ok \in BOOLEAN :
       \E ord \in OrderedByTimestampDesc(store) : NearbyRoute(q, ord, ok)
  \/ \E id \in ids, ok \in BOOLEAN : ByIdRoute(id, ok)
  \/ StatsBegin
  \/ \E ok \in BOOLEAN : StatsTotal(ok)
  \/ \E ok \in BOOLEAN :
       \E ord \in OrderedByMagnitudeDesc(store) : StatsStrongest(ord, ok)
  \/ \E ok \in BOOLEAN : StatsToday(ok)
  \/ \E ok \in BOOLEAN : StatsHistogram(ok)

\* ------------------------------------------------------------------------
\* The query service over a table that earlier runs have filled
\* ------------------------------------------------------------------------

\* one feed with one entry
ServerScenarios ==
  { [autogempa      |-> ObjectDoc(EJava),
     gempaterkini   |-> NoneDoc,
     gempadirasakan |-> ArrayDoc(<<>>)] }

\* the process right after start-up: the initial fetch is under way
InitQuery ==
  /\ norm = NoNorm
  /\ published \in ServerScenarios
  /\ supabase = TRUE
  /\ booted = TRUE
  /\ scheduled = TRUE
  /\ store \in SeedStores
  /\ now = 0
  /\ cycles = [c \in CycleIds |-> IF c = 1 THEN StartedCycle ELSE IdleCycle]
  /\ lastWritten = NoWrite
  /\ dbTouched = FALSE
  /\ batch = NoBatch
  /\ resp = NoResp
  /\ stats = NoStats

NextQuery == Requests(ListQueries, NearbyQueries, IdParams)

SpecQuery == InitQuery /\ [][NextQuery]_vars

\* ------------------------------------------------------------------------
\* The whole server: start-up, ingestion and requests
\* ------------------------------------------------------------------------

ServerListQueries ==
  {q \in ListQueries : q.offset = <<>> /\ q.minMagnitude = <<>>
                         /\ q.maxMagnitude = <<>>}

ServerNearbyQueries == {q \in NearbyQueries : q.radius = <<>>}

ServerIds == {Normalize(EJava, 0).id, <<"x">>}

InitServer ==
  /\ InitProcess
  /\ norm = NoNorm
  /\ published \in ServerScenarios
  /\ store = {}

Next ==
  \/ NextIngest
  \/ Requests(ServerListQueries, ServerNearbyQueries, ServerIds)

Spec == InitServer /\ [][Next]_vars

\* ------------------------------------------------------------------------
\* Properties of the server and of the query service
\* ------------------------------------------------------------------------

\* C5: without a client no cycle is ever started and no job scheduled, no
\* request reaches the table, and every response is a 503 sent before
\* anything else happened, a /nearby without lat included; the client is
\* never created later.
C5_UnconfiguredDegraded ==
  /\ [](~supabase =>
          /\ \A c \in CycleIds : cycles[c] = IdleCycle
          /\ ~scheduled
          /\ ~dbTouched
          /\ store = {}
          /\ stats = NoStats
          /\ resp.route # "none" =>
               (resp.status = 503 /\ resp.queries = 0
                  /\ resp.body = ConfigError))
  /\ [][supabase' = supabase]_vars

\* C5 witness: a started process without a client has answered 503 to a
\* /nearby request that has no lat
C5_Witness ==
  /\ ~supabase
  /\ booted
  /\ resp.route = "nearby"
  /\ resp.q.lat = <<>>
  /\ resp.status = 503

DistinctTimestamps(S) ==
  \A x \in S : \A y \in S : x # y => x.timestamp # y.timestamp

\* the rows a request asks for: magnitude present and within the bounds
Matching(S, q) ==
  {x \in S :
     /\ q.minMagnitude # <<>> =>
          (~x.magnitude.nan /\ x.magnitude.v >= parseFloatStr(q.minMagnitude[1]).v)
     /\ q.maxMagnitude # <<>> =>
          (~x.magnitude.nan /\ x.magnitude.v <= parseFloatStr(q.maxMagnitude[1]).v)}

\* the rows of S with distinct timestamps, latest first
SortedLatestFirst(S) ==
  CHOOSE o \in [1..Cardinality(S) -> S] :
    \A i \in 1..Cardinality(S) : \A j \in 1..Cardinality(S) :
      i < j => o[i].timestamp.v > o[j].timestamp.v

\* the pages of the route for the offsets 0, L, 2L, ..., one after the other
RECURSIVE PagesFrom(_, _, _, _)
PagesFrom(q, ord, L, k) ==
  IF k * L >= Len(ord) THEN <<>>
  ELSE ListResponse(TRUE, [q EXCEPT !.offset = Some(NatToStr(k * L))],
                    ord, TRUE).body.data
         \o PagesFrom(q, ord, L, k + 1)

\* C10: over a table with distinct timestamps, a 200 response of
\* GET /earthquakes with limit L and offset O holds exactly the elements
\* O .. O+L-1 of the matching rows sorted latest first, total is the number
\* of matching rows, and the pages for the offsets 0, L, 2L, ... put
\* together are that sorted list.
C10_PageIsSliceOfSortedMatches ==
  (resp.route = "list" /\ resp.status = 200 /\ DistinctTimestamps(store)) =>
    LET q      == resp.q
        L      == IntOf(resp.body.pagination.limit)
        O      == IntOf(resp.body.pagination.offset)
        sorted == SortedLatestFirst(Matching(store, q))
        data   == resp.body.data
    IN  /\ Len(data) = Cardinality({p \in (O + 1)..(O + L) : p <= Len(sorted)})
        /\ \A i \in 1..Len(data) : data[i] = sorted[O + i]
        /\ resp.body.pagination.total = Len(sorted)
        /\ PagesFrom(q, sorted, L, 0) = sorted

\* C10 witness: the second page of two of a table of four rows
C10_Witness ==
  /\ resp.route = "list" /\ resp.status = 200
  /\ DistinctTimestamps(store) /\ Cardinality(store) = 4
  /\ resp.q.limit = Some(<<"2">>) /\ resp.q.offset = Some(<<"2">>)
  /\ resp.q.minMagnitude = <<>> /\ resp.q.maxMagnitude = <<>>
  /\ Len(resp.body.data) = 2
  /\ resp.body.pagination.total = 4

\* ------------------------------------------------------------------------
\* Properties of the statistics
\* ------------------------------------------------------------------------

\* the half-open magnitude range of bucket k, in tenths
InBucketRange(k, v) ==
  CASE k = 1 -> v < 50
    [] k = 2 -> 50 <= v /\ v < 60
    [] k = 3 -> 60 <= v /\ v < 70
    [] k = 4 -> 70 <= v

\* the rows with magnitudes 3.0, 5.0, 5.9, 6.0 and 7.5
FiveMagnitudes ==
  {Normalize(e, 0) : e \in {EPapua, EJava, ETernate, EMaluku, ESulawesi}}

\* C11: a 200 response of /stats holds the four buckets '<5', '5-6', '6-7',
\* '7+' in this order; every row is counted in exactly one of them, a row
\* with a numeric magnitude in the bucket whose half-open range holds it;
\* the magnitudes 3.0, 5.0, 5.9, 6.0, 7.5 give the counts 1, 2, 1, 1.
C11_FourHalfOpenBuckets ==
  (resp.route = "stats" /\ resp.status = 200) =>
    LET bm == resp.body.data.byMagnitude
    IN  /\ Len(bm) = 4
        /\ <<bm[1].range, bm[2].range, bm[3].range, bm[4].range>>
             = <<"<5", "5-6", "6-7", "7+">>
        /\ \A k \in 1..4 :
             bm[k].count >=
               Cardinality({x \in store : ~x.magnitude.nan
                              /\ InBucketRange(k, x.magnitude.v)})
        /\ bm[1].count + bm[2].count + bm[3].count + bm[4].count
             = Cardinality(store)
        /\ store = FiveMagnitudes =>
             <<bm[1].count, bm[2].count, bm[3].count, bm[4].count>>
               = <<1, 2, 1, 1>>

\* C11 witness: the statistics of a table holding the five magnitudes
C11_Witness ==
  /\ resp.route = "stats" /\ resp.status = 200
  /\ store = FiveMagnitudes
  /\ resp.body.data.byMagnitude[2].count = 2

\* ------------------------------------------------------------------------
\* Properties of /nearby and /latest
\* ------------------------------------------------------------------------

\* lat or lng is absent or empty
LatOrLngMissing(q) == q.lat \in {<<>>, Some(<<>>)} \/ q.lng \in {<<>>, Some(<<>>)}

\* C12: with a client, a /nearby request without lat or without lng is
\* answered 400 with success false, and the step that answers it sends no
\* query to the table.
C12_NearbyMissingParams400 ==
  /\ []((supabase /\ resp.route = "nearby" /\ LatOrLngMissing(resp.q)) =>
          /\ resp.status = 400
          /\ resp.body.success = FALSE
          /\ resp.queries = 0)
  /\ [][(supabase /\ resp' # resp /\ resp'.route = "nearby"
           /\ LatOrLngMissing(resp'.q)) =>
          (dbTouched' = dbTouched /\ store' = store)]_vars

\* C12 witness: the first request of a configured process is a /nearby with
\* lng and no lat; it is answered 400 and the table was never queried
C12_Witness ==
  /\ supabase
  /\ resp.route = "nearby"
  /\ resp.q.lat = <<>> /\ resp.q.lng = Some(<<"1">>)
  /\ resp.status = 400
  /\ ~dbTouched

\* the computed distance of a row to the query point of q
DistanceTo(q, x) ==
  calculateDistance(parseFloatStr(q.lat[1]), parseFloatStr(q.lng[1]),
                    x.latitude, x.longitude)

\* the rows whose computed distance is at most the radius of q
WithinRadius(S, q) ==
  {x \in S :
     /\ ~DistanceTo(q, x).nan
     /\ DistanceTo(q, x).km100
          <= 10 * parseFloatStr(OrDefault(q.radius, DefaultRadius)).v}

\* C13 (as claimed): a 200 response of /nearby holds exactly the rows whose
\* computed distance to the query point is at most the radius, each once,
\* in ascending order of distance, each with its distance rounded to one
\* decimal.
C13_NearbyExactlyWithinRadius ==
  (resp.route = "nearby" /\ resp.status = 200) =>
    LET data == resp.body.data
    IN  /\ {data[i].eq : i \in 1..Len(data)} = WithinRadius(store, resp.q)
        /\ Len(data) = Cardinality(WithinRadius(store, resp.q))
        /\ \A i \in 1..Len(data) : \A j \in 1..Len(data) :
             i < j => data[i].distance.v <= data[j].distance.v
        /\ \A i \in 1..Len(data) :
             data[i].distance = RoundToTenth(DistanceTo(resp.q, data[i].eq))

\* C14: with a client, /latest answers 404 with success false when the
\* table is empty (unless the query failed), and a 200 response is given
\* only over a table with rows and holds one stored row whose timestamp is
\* the largest of the table.
C14_LatestIsMaxTimestamp ==
  (supabase /\ resp.route = "latest") =>
    /\ resp.status \in {200, 404, 500}
    /\ resp.status = 404 => (store = {} /\ resp.body.success = FALSE)
    /\ store = {} => resp.status # 200
    /\ resp.status = 200 =>
         /\ store # {}
         /\ resp.body.success = TRUE
         /\ resp.body.data \in store
         /\ \A x \in store :
              x.timestamp.v <= resp.body.data.timestamp.v

\* C14 witness: /latest answered over a table of at least three rows whose
\* latest row is not the only one
C14_Witness ==
  /\ resp.route = "latest" /\ resp.status = 200
  /\ Cardinality(store) >= 3
  /\ \E x \in store : x.timestamp.v < resp.body.data.timestamp.v

\* ------------------------------------------------------------------------
\* Ingestion while the feeds change: BMKG revises an event it has published
\* ------------------------------------------------------------------------

\* what the feeds publish first
OldFeed ==
  [autogempa      |-> ObjectDoc(EJava),
   gempaterkini   |-> ArrayDoc(<<EPapua>>),
   gempadirasakan |-> ArrayDoc(<<>>)]

\* what they publish after the event of EJava was revised
NewFeed ==
  [autogempa      |-> ObjectDoc(EJavaFelt),
   gempaterkini   |-> ArrayDoc(<<EPapua>>),
   gempadirasakan |-> ArrayDoc(<<>>)]

\* the documents behind the feed URLs are replaced
FeedUpdate ==
  /\ published = OldFeed
  /\ published' = NewFeed
  /\ UNCHANGED <<norm, supabase, booted, scheduled, store, now, cycles,
                 lastWritten, dbTouched, batch, resp, stats>>

InitOverlap ==
  /\ InitProcess
  /\ norm = NoNorm
  /\ published = OldFeed
  /\ store = {}

NextOverlap == NextIngest \/ FeedUpdate

SpecOverlap == InitOverlap /\ [][NextOverlap]_vars

\* the row is what normalization makes of the entry at some time
DerivedFrom(x, e) == \E t \in 0..MaxClock : x = Normalize(e, t)

\* C15 (as claimed): when no cycle is running any more and a later cycle
\* fetched and wrote the document a feed publishes now, while an earlier
\* cycle fetched and wrote another document of that feed, every id of the
\* later document holds the record derived from the later document.
C15_OverlapKeepsNewest ==
  \A f \in Feeds : \A d \in CycleIds :
    LET bd == cycles[d].br[f]
    IN  (/\ \A c \in CycleIds : cycles[c].status \in {"idle", "resolved"}
         /\ cycles[d].status = "resolved"
         /\ ~bd.fetchFailed
         /\ bd.doc = EntriesOf(f, published[f])
         /\ bd.written = Len(bd.doc)
         /\ \E c \in CycleIds :
              /\ c < d
              /\ cycles[c].status = "resolved"
              /\ cycles[c].br[f].doc # bd.doc
              /\ cycles[c].br[f].written = Len(cycles[c].br[f].doc))
        => \A i \in 1..Len(bd.doc) :
             \A x \in RowsOf(store, Normalize(bd.doc[i], 0).id) :
               DerivedFrom(x, bd.doc[i])

\* ------------------------------------------------------------------------
\* Order and completion of the work of a cycle
\* ------------------------------------------------------------------------

\* the id normalization gives an entry that does not raise
IdOf(e) == Normalize(e, 0).id

\* entry j is the last entry of the list that has its id
LastOfItsId(doc, j) ==
  /\ ~NormalizeThrows(doc[j])
  /\ \A k \in (j + 1)..Len(doc) :
       NormalizeThrows(doc[k]) \/ IdOf(doc[k]) # IdOf(doc[j])

\* no document of another feed names the id of e
OnlyInFeed(f, e) ==
  \A g \in Feeds \ {f} :
    \A k \in 1..Len(published[g].items) :
      LET o == published[g].items[k]
      IN  NormalizeThrows(o) \/ IdOf(o) # IdOf(e)

\* C16: a branch has at most one upsert under way, every earlier call of
\* the branch has resolved before the next entry is normalized, and the
\* record under way is the one of the entry at the position of the branch in
\* the published order; a successful write leaves the written entry under
\* its id, the position only moves forward, and so, once no cycle is
\* running and no write failed, an id that one list names twice holds the
\* record of the later entry.
C16_ListEntriesInOrder ==
  /\ [](\A cb \in Branches :
          LET b == BranchAt(cb)
          IN  /\ b.calls = b.written + b.failed
                             + (IF b.pc = "upserting" THEN 1 ELSE 0)
              /\ b.idx <= Len(b.doc)
              /\ b.pc = "upserting" =>
                   /\ b.doc = EntriesOf(cb[2], published[cb[2]])
                   /\ b.idx < Len(b.doc)
                   /\ DerivedFrom(b.pending[1], published[cb[2]].items[b.idx + 1])
              /\ (/\ \A c \in CycleIds : cycles[c].status \in {"idle", "resolved"}
                  /\ \A x \in Branches : BranchAt(x).errs = 0
                  /\ b.pc = "done" /\ ~b.fetchFailed)
                   => \A j \in 1..Len(b.doc) :
                        (LastOfItsId(b.doc, j) /\ OnlyInFeed(cb[2], b.doc[j]))
                          => \A x \in RowsOf(store, IdOf(b.doc[j])) :
                               DerivedFrom(x, published[cb[2]].items[j]))
  /\ [][\A cb \in Branches :
          LET b  == cycles[cb[1]].br[cb[2]]
              b2 == cycles'[cb[1]].br[cb[2]]
          IN  /\ b2.idx >= b.idx
              /\ (b.pc = "upserting" /\ b2.written = b.written + 1) =>
                   /\ b2.idx > b.idx
                   /\ RowsOf(store', b.pending[1].id) = {b.pending[1]}]_vars

\* C16 witness: a list that names one event twice was written entry by
\* entry and the table holds the record of the second entry
C16_Witness ==
  \E c \in CycleIds :
    /\ published["gempadirasakan"] = ArrayDoc(<<EJava, EJavaFelt>>)
    /\ \A d \in CycleIds : cycles[d].status \in {"idle", "resolved"}
    /\ cycles[c].br["gempadirasakan"].written = 2
    /\ \A x \in Branches : BranchAt(x).errs = 0
    /\ \E x \in store : DerivedFrom(x, EJavaFelt)

\* some branch awaits the table
SomeUpsertUnderWay ==
  \E c \in CycleIds, f \in Feeds : cycles[c].br[f].pc = "upserting"

\* The ingestion when requests that were sent are answered.  While some
\* axios.get is outstanding one of them resolves or rejects (it has a
\* timeout), and while some table call is outstanding one of them ends with
\* a result or an exception; the second condition is weak fairness of the
\* upsert steps, written with the condition under which they are enabled.
SpecIngestFair ==
  /\ Init
  /\ [][NextIngest]_vars
  /\ WF_vars(\E c \in CycleIds, f \in Feeds :
               FetchFail(c, f) \/ FetchResolve(c, f))
  /\ \/ []<>(~SomeUpsertUnderWay)
     \/ []<><<\E c \in CycleIds, f \in Feeds, o \in UpsertOutcomes :
                UpsertResolve(c, f, o)>>_vars

\* C17: a cycle has resolved only when each of its three branches is done
\* and no upsert it started is still under way, and every started cycle
\* resolves at last.
C17_FanOutJoin ==
  /\ [](\A c \in CycleIds :
          cycles[c].status = "resolved" =>
            \A f \in Feeds :
              /\ cycles[c].br[f].pc = "done"
              /\ cycles[c].br[f].pending = <<>>
              /\ cycles[c].br[f].calls
                   = cycles[c].br[f].written + cycles[c].br[f].failed)
  /\ \A c \in CycleIds :
       (cycles[c].status = "running") ~> (cycles[c].status = "resolved")

\* C17 witness: a resolved cycle with a failed fetch, a branch that wrote
\* two records and a branch whose write failed
C17_Witness ==
  \E c \in CycleIds :
    /\ cycles[c].status = "resolved"
    /\ \E f \in Feeds : cycles[c].br[f].fetchFailed
    /\ \E f \in Feeds : cycles[c].br[f].calls = 2
    /\ \E f \in Feeds : cycles[c].br[f].errs >= 1

====
